---- MODULE Spec2Model ----
(***************************************************************************)
(* Umbrosa backend: four Lambda handlers (scheduled-calls, get-context,    *)
(* create-vapi-call, webhook) and the Step Functions workflow that chains  *)
(* them (cdk_stack.py).  Text values are sequences of tokens; a Python     *)
(* value that can be None is a record [isNone, val]; an identifier that    *)
(* can be None is a string, with NULL for None.                            *)
(***************************************************************************)
EXTENDS Integers, Sequences, FiniteSets, TLC

VARIABLES
    env,        \* Lambda environment (cdk_stack.py lambda_props.environment)
    store,      \* rows of the call_transcripts table, in insertion order
    now,        \* datetime.utcnow() of the latest insert
    event,      \* the event of the latest webhook invocation
    response,   \* what the latest webhook invocation returned (or that it raised)
    lookup,     \* the latest direct get-context invocation: input and outcome
    execStatus, \* status of the state machine execution
    batch,      \* the "batch" of the execution input
    calls,      \* $.calls: output of Get Scheduled Calls, the Map state's items
    pc,         \* per item of the Map state: position of its iteration
    state,      \* per item: the JSON state flowing through its iteration
    requests,   \* every vapi.calls.create request made so far, in order
    executions  \* number of executions started so far

vars == <<env, store, now, event, response, lookup, execStatus, batch, calls,
          pc, state, requests, executions>>

(***************************************************************************)
(* Bounds of the model.                                                    *)
(***************************************************************************)
MaxStore == 2        \* rows the webhook may add to the table
MaxExecutions == 1   \* executions of the state machine
MaxItems == 6        \* items of a Map state in SpecMap
MaxRows == 2         \* rows of the table in SpecLookup

(***************************************************************************)
(* Values.                                                                 *)
(***************************************************************************)
NULL == "null"
None == [isNone |-> TRUE, val |-> <<>>]
Some(v) == [isNone |-> FALSE, val |-> v]

\* Python truthiness of an optional text or list: None, '' and [] are falsy.
Truthy(v) == ~v.isNone /\ v.val # <<>>

\* Python truthiness of an optional identifier: None and '' are falsy.
TruthyId(s) == s # NULL /\ s # ""

\* a or b
Or(a, b) == IF Truthy(a) THEN a ELSE b

\* dict.get(key) on a JSON object whose values are identifiers
Get(obj, key) == IF key \in DOMAIN obj THEN obj[key] ELSE NULL

\* dict.get(key) on a JSON object, for a key holding an optional text
GetText(obj, key) == IF key \in DOMAIN obj THEN obj[key] ELSE None

\* s occurs in t as a contiguous run of tokens
Contains(t, s) ==
    \E i \in 0..(Len(t) - Len(s)) : SubSeq(t, i + 1, i + Len(s)) = s

RECURSIVE Join(_)
\* the items of a Python list of strings as str(list) prints them
Join(items) ==
    IF items = <<>> THEN <<>>
    ELSE <<"'">> \o Head(items) \o <<"'">>
         \o (IF Tail(items) = <<>> THEN <<>> ELSE <<", ">>)
         \o Join(Tail(items))

\* str(list): what an f-string renders for a list
StrList(items) == <<"[">> \o Join(items) \o <<"]">>

(***************************************************************************)
(* Secrets and configuration (shared/umbrosa_secrets.py).                  *)
(***************************************************************************)
\* What can go wrong before a handler's own code runs: nothing, a secret of
\* get_credentials() cannot be fetched, the config secret cannot be fetched
\* or parsed, or the store client cannot be constructed.
Faults == {"none", "credentials", "config", "client"}

\* get_config(): the parsed umbrosa/config secret
get_config == [vapi_phone_number_id |-> "phone-number-1",
               supabase_url |-> "https://umbrosa.supabase.co"]

\* get_credentials() raises when a get_secret() call raises
CredentialsRaise(fault) == fault = "credentials"

\* get_config() raises when get_secret() or json.loads() raises
ConfigRaises(fault) == fault = "config"

(***************************************************************************)
(* Lambda environment (cdk_stack.py, lambda_props).                        *)
(***************************************************************************)
MARIA == "f024a1ed-343e-4363-8b2d-9daf6af31110"
VI == "43950926-3935-4853-8475-14da102748b5"
MARCUS == "a6462580-007c-4e31-805a-acd5de1dfee3"
SUE == "70b87980-eae2-49b0-98cc-036867a6a1fd"

\* try_get_context(name) or default: the context value when one is given
ContextOr(given, default) == IF TruthyId(given) THEN given ELSE default

\* the values cdk.json / --context may give for the two series ids
SeriesContext == {NULL, MARCUS, SUE}

\* no context value given: every id is its default
DefaultEnvironment ==
    [MARIA_ASSISTANT_ID |-> MARIA,
     VI_ASSISTANT_ID |-> VI,
     INTERVIEW_SERIES_MARCUS |-> MARCUS,
     INTERVIEW_SERIES_SUE |-> SUE]

Environments ==
    { [MARIA_ASSISTANT_ID |-> MARIA,
       VI_ASSISTANT_ID |-> VI,
       INTERVIEW_SERIES_MARCUS |-> ContextOr(m, MARCUS),
       INTERVIEW_SERIES_SUE |-> ContextOr(s, SUE)] : m \in SeriesContext, s \in SeriesContext }

(***************************************************************************)
(* Call Directory (scheduled-calls/handler.py).                            *)
(***************************************************************************)
\* ScheduledCalls whose second definition reads the series id of the first
ScheduledCallsSameSeries(e, config) ==
    << [id |-> "f024a1ed-343e-4363-8b2d-9daf6af31110-0900",
        name |-> "Daily 9:00 AM call to +61467807718",
        assistantId |-> e.MARIA_ASSISTANT_ID,
        phoneNumberId |-> config.vapi_phone_number_id,
        customerNumber |-> "+61467807718",
        interviewSeriesId |-> e.INTERVIEW_SERIES_MARCUS,
        promptName |-> "marcus-daily-checkin",
        batch |-> "morning"],
       [id |-> "43950926-3935-4853-8475-14da102748b5-1620",
        name |-> "Daily 4:20 PM call to +61415874467",
        assistantId |-> e.VI_ASSISTANT_ID,
        phoneNumberId |-> config.vapi_phone_number_id,
        customerNumber |-> "+61415874467",
        interviewSeriesId |-> e.INTERVIEW_SERIES_MARCUS,
        promptName |-> "sue-daily-checkin",
        batch |-> "afternoon"] >>

\* the literal list `calls` of the handler
ScheduledCalls(e, config) ==
    << [id |-> "f024a1ed-343e-4363-8b2d-9daf6af31110-0900",
        name |-> "Daily 9:00 AM call to +61467807718",
        assistantId |-> e.MARIA_ASSISTANT_ID,
        phoneNumberId |-> config.vapi_phone_number_id,
        customerNumber |-> "+61467807718",
        interviewSeriesId |-> e.INTERVIEW_SERIES_MARCUS,
        promptName |-> "marcus-daily-checkin",
        batch |-> "morning"],
       [id |-> "43950926-3935-4853-8475-14da102748b5-1620",
        name |-> "Daily 4:20 PM call to +61415874467",
        assistantId |-> e.VI_ASSISTANT_ID,
        phoneNumberId |-> config.vapi_phone_number_id,
        customerNumber |-> "+61415874467",
        interviewSeriesId |-> e.INTERVIEW_SERIES_SUE,
        promptName |-> "sue-daily-checkin",
        batch |-> "afternoon"] >>

\* c.get("batch") == batch
BatchIs(c, b) == Get(c, "batch") = b

\* ListCalls without the filter
ListCallsUnfiltered(b, e, config) == ScheduledCalls(e, config)

\* if batch: calls = [c for c in calls if c.get("batch") == batch]
ListCalls(b, e, config) ==
    IF TruthyId(b)
    THEN SelectSeq(ScheduledCalls(e, config), LAMBDA c : BatchIs(c, b))
    ELSE ScheduledCalls(e, config)

\* the labels the two EventBridge rules put into the execution input
TriggerBatches == {"morning", "afternoon"}

\* the "batch" values an execution input may carry; NULL is no label
Batches == {"morning", "afternoon", "evening", "", NULL}

(***************************************************************************)
(* Context Lookup (get-context/handler.py).                                *)
(***************************************************************************)
\* .eq('interview_series_id', interview_series_id): a NULL column equals nothing
Matches(row, sid) == sid # NULL /\ row.interview_series_id = sid

\* .order('created_at', desc=True).limit(1).maybe_single(): the indices of the
\* rows the query may return (rows with equal created_at come in any order)
LatestRows(table, sid) ==
    { i \in 1..Len(table) :
        /\ Matches(table[i], sid)
        /\ \A j \in 1..Len(table) :
              Matches(table[j], sid) => table[j].created_at <= table[i].created_at }

\* ContextOf without the fallback to summary
ContextOfNoFallback(row) == GetText(row, "context_summary")

\* result.data.get('context_summary') or result.data.get('summary')
ContextOf(row) == Or(GetText(row, "context_summary"), GetText(row, "summary"))

\* the responses the handler may return for a table and a series id
GetContext(table, sid) ==
    IF LatestRows(table, sid) # {}
    THEN { [context |-> ContextOf(table[i]), interviewSeriesId |-> sid] :
             i \in LatestRows(table, sid) }
    ELSE { [context |-> None, interviewSeriesId |-> sid] }

(***************************************************************************)
(* Call Dispatcher (create-vapi-call/handler.py).                          *)
(***************************************************************************)
\* AssistantOverrides that sets previousContext whatever the context is
AssistantOverridesAlways(previous_context) ==
    [variableValues |-> [k \in {"previousContext"} |-> previous_context.val]]

\* assistant_overrides: previousContext is set only for a truthy context
AssistantOverrides(previous_context) ==
    [variableValues |->
        [k \in (IF Truthy(previous_context) THEN {"previousContext"} ELSE {})
            |-> previous_context.val]]

\* the arguments of vapi.calls.create for an event
CreateRequest(ev) ==
    [phone_number_id |-> Get(ev, "phoneNumberId"),
     customer_number |-> Get(ev, "customerNumber"),
     assistant_id |-> Get(ev, "assistantId"),
     assistant_overrides |-> AssistantOverrides(GetText(ev, "context"))]

\* call.get('id') of the n-th call the voice API creates
CallId(n) == "call-" \o ToString(n)

\* the handler's return value
CallOutcome(ev, id) ==
    [vapiCallId |-> id,
     customerNumber |-> Get(ev, "customerNumber"),
     status |-> "created"]

(***************************************************************************)
(* Webhook Ingestor (webhook/handler.py).                                  *)
(***************************************************************************)
EndOfCallReport == "end-of-call-report"

\* A webhook event.  body: "absent" (no body key), "invalid" (not JSON) or
\* "json"; message and call: "absent", "null" or "object"; analysis: "absent"
\* or "object"; summary and actionItems: None when the key is absent.
WebhookEvent(body, message, type, call, id, analysis, summary, actionItems) ==
    [body |-> body, message |-> message, type |-> type, call |-> call, id |-> id,
     analysis |-> analysis, summary |-> summary, actionItems |-> actionItems,
     transcript |-> << <<"AI: hello">> >>]

\* json.loads(event.get('body', '{}')) raises
ParseRaises(ev) == ev.body = "invalid"

\* body.get('message', {}) is None, so message.get raises
MessageRaises(ev) == ev.body = "json" /\ ev.message = "null"

\* message.get('type')
MessageType(ev) ==
    IF ev.body = "json" /\ ev.message = "object" THEN ev.type ELSE NULL

\* call_data = message.get('call', {}) is a dict with content
HasCall(ev) == ev.body = "json" /\ ev.message = "object" /\ ev.call = "object"

\* call_data is None, so call_data.get raises
CallRaises(ev) == ev.body = "json" /\ ev.message = "object" /\ ev.call = "null"

\* call_data.get('id')
VapiCallId(ev) == IF HasCall(ev) THEN ev.id ELSE NULL

\* analysis = call_data.get('analysis', {}) is a dict with content
HasAnalysis(ev) == HasCall(ev) /\ ev.analysis = "object"

\* analysis.get('summary', '')
Summary(ev) ==
    IF HasAnalysis(ev) /\ ~ev.summary.isNone THEN ev.summary.val ELSE <<>>

\* analysis.get('actionItems', [])
ActionItems(ev) ==
    IF HasAnalysis(ev) /\ ~ev.actionItems.isNone THEN ev.actionItems.val ELSE <<>>

\* key_insights = analysis.get('actionItems', [])
KeyInsights(ev) == ActionItems(ev)

\* call_data.get('transcript', [])
Transcript(ev) == IF HasCall(ev) THEN ev.transcript ELSE <<>>

\* ContextSummary without the key insights
ContextSummaryOmitsInsights(summary, key_insights) == <<"Summary: ">> \o summary

\* f"Summary: {summary}\n\nKey Insights: {key_insights}"
ContextSummary(summary, key_insights) ==
    <<"Summary: ">> \o summary \o <<"\n\nKey Insights: ">> \o StrList(key_insights)

\* the row the insert adds for `record`: the table assigns id, and the column
\* interview_series_id, which the record does not carry, stays NULL
Record(ev, t, rowId) ==
    [id |-> rowId,
     vapi_call_id |-> VapiCallId(ev),
     transcript |-> Transcript(ev),
     summary |-> Some(Summary(ev)),
     key_insights |-> KeyInsights(ev),
     action_items |-> ActionItems(ev),
     context_summary |-> Some(ContextSummary(Summary(ev), KeyInsights(ev))),
     interview_series_id |-> NULL,
     created_at |-> t]

Raised(exception) ==
    [raised |-> TRUE, statusCode |-> 0, body |-> [exception |-> exception]]

Returned(statusCode, body) ==
    [raised |-> FALSE, statusCode |-> statusCode, body |-> body]

\* lines 32-38, outside the try block: the exception leaves the handler
Preamble(fault) ==
    IF CredentialsRaise(fault) THEN Raised("get_credentials")
    ELSE IF ConfigRaises(fault) THEN Raised("get_config")
    ELSE IF fault = "client" THEN Raised("create_client")
    ELSE Returned(0, [status |-> "running"])

\* the try block reaches supabase.table('call_transcripts').insert(record)
ReachesInsert(ev) ==
    /\ ~ParseRaises(ev) /\ ~MessageRaises(ev) /\ ~CallRaises(ev)
    /\ MessageType(ev) = EndOfCallReport

\* lines 40-95: the try block and its except clause
TryBlock(ev, insertOk, rowId) ==
    IF ParseRaises(ev) THEN Returned(500, [error |-> "JSONDecodeError"])
    ELSE IF MessageRaises(ev) THEN Returned(500, [error |-> "AttributeError"])
    ELSE IF MessageType(ev) # EndOfCallReport
    THEN Returned(200, [status |-> "ignored"])
    ELSE IF CallRaises(ev) THEN Returned(500, [error |-> "AttributeError"])
    ELSE IF ~insertOk THEN Returned(500, [error |-> "APIError"])
    ELSE Returned(200, [status |-> "success", supabase_id |-> rowId])

\* what lambda_handler returns, or that it raised
WebhookResponse(ev, fault, insertOk, rowId) ==
    IF Preamble(fault).raised THEN Preamble(fault)
    ELSE TryBlock(ev, insertOk, rowId)

\* WebhookStore as an upsert on the call id: a second report of a call
\* replaces the record of the first
WebhookStoreUpsert(table, ev, fault, insertOk, t) ==
    IF ~Preamble(fault).raised /\ ReachesInsert(ev) /\ insertOk
    THEN IF \E k \in 1..Len(table) : table[k].vapi_call_id = VapiCallId(ev)
         THEN [k \in 1..Len(table) |->
                  IF table[k].vapi_call_id = VapiCallId(ev)
                  THEN Record(ev, t, k) ELSE table[k]]
         ELSE Append(table, Record(ev, t, Len(table) + 1))
    ELSE table

\* WebhookStore that skips the insert when the table holds the call id
WebhookStoreDedup(table, ev, fault, insertOk, t) ==
    IF /\ ~Preamble(fault).raised /\ ReachesInsert(ev) /\ insertOk
       /\ \A k \in 1..Len(table) : table[k].vapi_call_id # VapiCallId(ev)
    THEN Append(table, Record(ev, t, Len(table) + 1))
    ELSE table

\* the table after the invocation
WebhookStore(table, ev, fault, insertOk, t) ==
    IF ~Preamble(fault).raised /\ ReachesInsert(ev) /\ insertOk
    THEN Append(table, Record(ev, t, Len(table) + 1))
    ELSE table

\* the events the provider (or anyone else) may post: a body that is not
\* JSON, no body, no message, a null message, a message without type, a
\* status update, and end-of-call reports without call data, without
\* analysis, and with the analysis fields present or absent
Analyses ==
    {<<Some(<<"ok">>), Some(<< <<"call back tomorrow">> >>)>>,
     <<None, Some(<< <<"call back tomorrow">>, <<"send notes">> >>)>>,
     <<Some(<<"ok">>), None>>}

WebhookEvents ==
    {WebhookEvent("invalid", "absent", NULL, "absent", NULL, "absent", None, None),
     WebhookEvent("absent", "absent", NULL, "absent", NULL, "absent", None, None),
     WebhookEvent("json", "absent", NULL, "absent", NULL, "absent", None, None),
     WebhookEvent("json", "null", NULL, "absent", NULL, "absent", None, None),
     WebhookEvent("json", "object", NULL, "object", CallId(1), "absent", None, None),
     WebhookEvent("json", "object", "status-update", "object", CallId(1), "absent", None, None),
     WebhookEvent("json", "object", EndOfCallReport, "absent", NULL, "absent", None, None),
     WebhookEvent("json", "object", EndOfCallReport, "null", NULL, "absent", None, None),
     WebhookEvent("json", "object", EndOfCallReport, "object", CallId(1), "absent", None, None),
     WebhookEvent("json", "object", EndOfCallReport, "object", CallId(2), "object",
                  Some(<<"ok">>), Some(<< <<"call back tomorrow">> >>))}
    \cup { WebhookEvent("json", "object", EndOfCallReport, "object", CallId(1), "object",
                        a[1], a[2]) : a \in Analyses }

NoEvent == WebhookEvent("none", "absent", NULL, "absent", NULL, "absent", None, None)
NoResponse == Returned(0, [status |-> "none"])
NoLookup ==
    [interviewSeriesId |-> NULL, raised |-> FALSE, context |-> None, rows |-> 0,
     calls |-> 0]

\* a row another writer put into the table, with its series id
Row(rowId, sid, summary, context_summary, t) ==
    [id |-> rowId, vapi_call_id |-> "call-0", transcript |-> <<>>,
     summary |-> summary, key_insights |-> <<>>, action_items |-> <<>>,
     context_summary |-> context_summary, interview_series_id |-> sid,
     created_at |-> t]

\* the tables a deployment may start from: empty, or one row of an earlier
\* call of the first series, with or without text in it
InitialStores ==
    {<<>>,
     <<Row(1, MARCUS, Some(<<"ok">>), Some(<<"prior notes">>), 0)>>,
     <<Row(1, MARCUS, Some(<<>>), None, 0)>>}

(***************************************************************************)
(* State machine UmbrosaScheduledCalls (cdk_stack.py).                     *)
(***************************************************************************)
MaxConcurrency == 5

Positions == {"pending", "Get Conversation Context", "Create Vapi Call",
              "succeeded", "failed", "aborted", "orphan"}

Running == execStatus \in {"Get Scheduled Calls", "Map Calls"}

\* the iterations whose Lambda task the Map state is running
Executing == { i \in 1..Len(pc) : pc[i] \in {"Get Conversation Context", "Create Vapi Call"} }

\* Abort that stops nothing: every iteration that has not ended goes on
AbortNothing(p) ==
    [i \in 1..Len(p) |->
        IF p[i] \in {"pending", "Get Conversation Context", "Create Vapi Call"}
        THEN "orphan" ELSE p[i]]

\* the execution ends: iterations not started stay so, a running Get
\* Conversation Context is dropped, and a running create-vapi-call invocation
\* is no longer waited for but is not stopped either
Abort(p) ==
    [i \in 1..Len(p) |->
        CASE p[i] = "pending" -> "aborted"
          [] p[i] = "Get Conversation Context" -> "aborted"
          [] p[i] = "Create Vapi Call" -> "orphan"
          [] OTHER -> p[i]]

\* a task of iteration i fails: no Catch, no Retry, so the Map state and the
\* execution fail
FailIteration(i) ==
    /\ pc' = [Abort(pc) EXCEPT ![i] = "failed"]
    /\ execStatus' = "FAILED"

TypeOK ==
    /\ env \in Environments
    /\ execStatus \in {"NONE", "Get Scheduled Calls", "Map Calls", "SUCCEEDED", "FAILED", "TIMED_OUT"}
    /\ batch \in Batches
    /\ Len(pc) = Len(calls) /\ Len(state) = Len(calls)
    /\ \A i \in 1..Len(pc) : pc[i] \in Positions
    /\ executions \in 0..MaxExecutions
    /\ response.raised \in BOOLEAN

Init ==
    /\ env = DefaultEnvironment
    /\ store \in InitialStores
    /\ now = 0
    /\ event = NoEvent
    /\ response = NoResponse
    /\ lookup = NoLookup
    /\ execStatus = "NONE"
    /\ batch = NULL
    /\ calls = <<>>
    /\ pc = <<>>
    /\ state = <<>>
    /\ requests = <<>>
    /\ executions = 0

runVars == <<execStatus, batch, calls, pc, state, requests, executions>>
hookVars == <<store, now, event, response>>

\* EventBridge rule (or a manual start) starts an execution with {"batch": b}
StartExecution(b) ==
    /\ ~Running
    /\ \A i \in 1..Len(pc) : pc[i] # "orphan"
    /\ executions < MaxExecutions
    /\ executions' = executions + 1
    /\ execStatus' = "Get Scheduled Calls"
    /\ batch' = b
    /\ calls' = <<>> /\ pc' = <<>> /\ state' = <<>>
    /\ UNCHANGED <<env, hookVars, lookup, requests>>

\* task Get Scheduled Calls: the scheduled-calls Lambda on the execution input
GetScheduledCallsTask(fault) ==
    /\ execStatus = "Get Scheduled Calls"
    /\ IF ConfigRaises(fault)
       THEN /\ execStatus' = "FAILED"
            /\ UNCHANGED <<calls, pc, state>>
       ELSE /\ calls' = ListCalls(batch, env, get_config)
            /\ pc' = [i \in 1..Len(calls') |-> "pending"]
            /\ state' = calls'
            /\ execStatus' = "Map Calls"
    /\ UNCHANGED <<env, hookVars, lookup, batch, requests, executions>>

\* StartIteration without the concurrency limit
StartIterationUnbounded(i) ==
    /\ execStatus = "Map Calls"
    /\ i \in 1..Len(pc) /\ pc[i] = "pending"
    /\ \A j \in 1..(i - 1) : pc[j] # "pending"
    /\ pc' = [pc EXCEPT ![i] = "Get Conversation Context"]
    /\ UNCHANGED <<env, hookVars, lookup, execStatus, batch, calls, state, requests, executions>>

\* Map Calls starts the next iteration, at most max_concurrency at a time
StartIteration(i) ==
    /\ execStatus = "Map Calls"
    /\ i \in 1..Len(pc) /\ pc[i] = "pending"
    /\ \A j \in 1..(i - 1) : pc[j] # "pending"
    /\ Cardinality(Executing) < MaxConcurrency
    /\ pc' = [pc EXCEPT ![i] = "Get Conversation Context"]
    /\ UNCHANGED <<env, hookVars, lookup, execStatus, batch, calls, state, requests, executions>>

\* GetContextTask with a Catch that sends a failed lookup on to the dispatcher
GetContextTaskCaught(i, fault, queryOk) ==
    /\ execStatus = "Map Calls"
    /\ i \in 1..Len(pc) /\ pc[i] = "Get Conversation Context"
    /\ IF CredentialsRaise(fault) \/ fault = "client" \/ ~queryOk
       THEN /\ pc' = [pc EXCEPT ![i] = "Create Vapi Call"]
            /\ UNCHANGED <<state, execStatus>>
       ELSE /\ \E out \in GetContext(store, Get(state[i], "interviewSeriesId")) :
                  state' = [state EXCEPT ![i] = out]
            /\ pc' = [pc EXCEPT ![i] = "Create Vapi Call"]
            /\ UNCHANGED execStatus
    /\ UNCHANGED <<env, hookVars, lookup, batch, calls, requests, executions>>

\* task Get Conversation Context of iteration i: the get-context Lambda on the
\* iteration's state; output_path $.Payload makes its return value the state
GetContextTask(i, fault, queryOk) ==
    /\ execStatus = "Map Calls"
    /\ i \in 1..Len(pc) /\ pc[i] = "Get Conversation Context"
    /\ IF CredentialsRaise(fault) \/ fault = "client" \/ ~queryOk
       THEN FailIteration(i) /\ UNCHANGED state
       ELSE /\ \E out \in GetContext(store, Get(state[i], "interviewSeriesId")) :
                  state' = [state EXCEPT ![i] = out]
            /\ pc' = [pc EXCEPT ![i] = "Create Vapi Call"]
            /\ UNCHANGED execStatus
    /\ UNCHANGED <<env, hookVars, lookup, batch, calls, requests, executions>>

\* the calls the voice API has created
Created == SelectSeq(requests, LAMBDA r : r.id # NULL)

\* vapi.calls.create(...) of the handler, by iteration i, on event ev: the
\* request as the voice API receives it, with the id of the call it creates
Request(ev, i, apiOk) ==
    [request |-> CreateRequest(ev),
     interviewSeriesId |-> Get(ev, "interviewSeriesId"),
     execution |-> executions,
     item |-> i,
     id |-> IF apiOk THEN CallId(Len(Created) + 1) ELSE NULL]

\* CreateVapiCallTask with a Retry on the task: after a failed request the
\* iteration runs the dispatcher again
CreateVapiCallTaskRetried(i, fault, apiOk) ==
    /\ execStatus = "Map Calls"
    /\ i \in 1..Len(pc) /\ pc[i] = "Create Vapi Call"
    /\ IF CredentialsRaise(fault)
       THEN FailIteration(i) /\ UNCHANGED <<state, requests>>
       ELSE /\ requests' = Append(requests, Request(state[i], i, apiOk))
            /\ IF apiOk
               THEN /\ state' = [state EXCEPT
                                   ![i] = CallOutcome(state[i], CallId(Len(Created) + 1))]
                    /\ pc' = [pc EXCEPT ![i] = "succeeded"]
                    /\ UNCHANGED execStatus
               ELSE UNCHANGED <<state, pc, execStatus>>
    /\ UNCHANGED <<env, hookVars, lookup, batch, calls, executions>>

\* task Create Vapi Call of iteration i: the create-vapi-call Lambda on the
\* iteration's state
CreateVapiCallTask(i, fault, apiOk) ==
    /\ execStatus = "Map Calls"
    /\ i \in 1..Len(pc) /\ pc[i] = "Create Vapi Call"
    /\ IF CredentialsRaise(fault)
       THEN FailIteration(i) /\ UNCHANGED <<state, requests>>
       ELSE /\ requests' = Append(requests, Request(state[i], i, apiOk))
            /\ IF apiOk
               THEN /\ state' = [state EXCEPT
                                   ![i] = CallOutcome(state[i], CallId(Len(Created) + 1))]
                    /\ pc' = [pc EXCEPT ![i] = "succeeded"]
                    /\ UNCHANGED execStatus
               ELSE FailIteration(i) /\ UNCHANGED state
    /\ UNCHANGED <<env, hookVars, lookup, batch, calls, executions>>

\* a create-vapi-call invocation that outlives its execution runs to its end
OrphanCreateVapiCall(i, fault, apiOk) ==
    /\ i \in 1..Len(pc) /\ pc[i] = "orphan"
    /\ IF CredentialsRaise(fault)
       THEN UNCHANGED requests
       ELSE requests' = Append(requests, Request(state[i], i, apiOk))
    /\ pc' = [pc EXCEPT ![i] = "aborted"]
    /\ UNCHANGED <<env, hookVars, lookup, execStatus, batch, calls, state, executions>>

\* every iteration succeeded: the Map state and the execution succeed
MapSucceeds ==
    /\ execStatus = "Map Calls"
    /\ \A i \in 1..Len(pc) : pc[i] = "succeeded"
    /\ execStatus' = "SUCCEEDED"
    /\ UNCHANGED <<env, hookVars, lookup, batch, calls, pc, state, requests, executions>>

\* timeout=Duration.minutes(5) of the state machine fires
Timeout ==
    /\ Running
    /\ execStatus' = "TIMED_OUT"
    /\ pc' = Abort(pc)
    /\ UNCHANGED <<env, hookVars, lookup, batch, calls, state, requests, executions>>

\* the ids of the calls the voice API has created
CreatedIds == { requests[j].id : j \in 1..Len(requests) } \ {NULL}

\* what the provider posts when a call it has created ends: the call's
\* end-of-call report (its other messages are among WebhookEvents)
SystemEvents ==
    { WebhookEvent("json", "object", EndOfCallReport, "object", id, "object",
                   Some(<<"ok">>), Some(<< <<"call back tomorrow">> >>)) :
        id \in CreatedIds }

\* POST /webhook: one invocation of the webhook Lambda
\* at time t = datetime.utcnow()
Webhook(ev, fault, insertOk, t) ==
    /\ WebhookStore(store, ev, fault, insertOk, t) # store => Len(store) < MaxStore
    /\ store' = WebhookStore(store, ev, fault, insertOk, t)
    /\ now' = IF store' # store THEN t ELSE now
    /\ event' = ev
    /\ response' = WebhookResponse(ev, fault, insertOk, Len(store) + 1)
    /\ UNCHANGED <<env, lookup, runVars>>

\* one direct invocation of the get-context Lambda; lookup.rows is the number
\* of rows the table held then
ContextLookup(sid, fault, queryOk) ==
    /\ IF CredentialsRaise(fault) \/ fault = "client" \/ ~queryOk
       THEN lookup' = [interviewSeriesId |-> sid, raised |-> TRUE, context |-> None,
                       rows |-> Len(store), calls |-> 1]
       ELSE \E out \in GetContext(store, sid) :
               lookup' = [interviewSeriesId |-> out.interviewSeriesId, raised |-> FALSE,
                          context |-> out.context, rows |-> Len(store), calls |-> 1]
    /\ UNCHANGED <<env, hookVars, runVars>>

Next ==
    \/ \E b \in Batches : StartExecution(b)
    \/ \E fault \in {"none", "config"} : GetScheduledCallsTask(fault)
    \/ \E i \in 1..Len(pc) : StartIteration(i)
    \/ \E i \in 1..Len(pc), fault \in {"none", "credentials"}, queryOk \in BOOLEAN :
          GetContextTask(i, fault, queryOk)
    \/ \E i \in 1..Len(pc), fault \in {"none", "credentials"}, apiOk \in BOOLEAN :
          CreateVapiCallTask(i, fault, apiOk)
    \/ \E i \in 1..Len(pc), fault \in {"none", "credentials"}, apiOk \in BOOLEAN :
          OrphanCreateVapiCall(i, fault, apiOk)
    \/ MapSucceeds
    \/ Timeout
    \/ \E ev \in SystemEvents : Webhook(ev, "none", TRUE, now + 1)
    \/ \E sid \in {MARCUS, SUE} : ContextLookup(sid, "none", TRUE)

Spec == Init /\ [][Next]_vars

(***************************************************************************)
(* The webhook alone, on every event and every fault of its collaborators. *)
(***************************************************************************)
NextWebhook ==
    \E ev \in WebhookEvents, fault \in Faults, insertOk \in BOOLEAN :
        Webhook(ev, fault, insertOk, now + 1)

SpecWebhook == Init /\ [][NextWebhook]_vars

(***************************************************************************)
(* Context Lookup alone, on every table of at most MaxRows rows.           *)
(***************************************************************************)
Texts(kind, i) == {None, Some(<<>>), Some(<<kind, ToString(i)>>)}

\* the rows a table may hold at position i
Rows(i) ==
    { Row(i, sid, summary, context_summary, t) :
        sid \in {MARCUS, SUE, NULL},
        summary \in Texts("summary", i),
        context_summary \in Texts("context", i),
        t \in {1, 2} }

RECURSIVE TablesOf(_)
\* the tables of exactly n rows
TablesOf(n) ==
    IF n = 0 THEN {<<>>}
    ELSE { Append(table, row) : table \in TablesOf(n - 1), row \in Rows(n) }


InitLookup ==
    /\ env = DefaultEnvironment
    /\ \E n \in 0..MaxRows : store \in TablesOf(n)
    /\ now = 2
    /\ event = NoEvent
    /\ response = NoResponse
    /\ lookup = NoLookup
    /\ execStatus = "NONE"
    /\ batch = NULL
    /\ calls = <<>>
    /\ pc = <<>>
    /\ state = <<>>
    /\ requests = <<>>
    /\ executions = 0

NextLookup ==
    \E sid \in {MARCUS, NULL}, fault \in {"none", "client"}, queryOk \in BOOLEAN :
        ContextLookup(sid, fault, queryOk)

SpecLookup == InitLookup /\ [][NextLookup]_vars

(***************************************************************************)
(* The Map state alone, on every list of at most MaxItems items.           *)
(***************************************************************************)
\* $.calls of n items: the configured definitions, repeated
Items(n) ==
    [i \in 1..n |-> ScheduledCalls(DefaultEnvironment, get_config)[1 + (i % 2)]]

InitMap ==
    /\ env = DefaultEnvironment
    /\ store = <<Row(1, MARCUS, Some(<<"ok">>), Some(<<"prior notes">>), 0)>>
    /\ now = 0
    /\ event = NoEvent
    /\ response = NoResponse
    /\ lookup = NoLookup
    /\ execStatus = "Map Calls"
    /\ batch = NULL
    /\ \E n \in 0..MaxItems :
          /\ calls = Items(n)
          /\ pc = [i \in 1..n |-> "pending"]
          /\ state = Items(n)
    /\ requests = <<>>
    /\ executions = 1

NextMap ==
    \/ \E i \in 1..Len(pc) : StartIteration(i)
    \/ \E i \in 1..Len(pc), queryOk \in BOOLEAN : GetContextTask(i, "none", queryOk)
    \/ \E i \in 1..Len(pc), apiOk \in BOOLEAN : CreateVapiCallTask(i, "none", apiOk)
    \/ \E i \in 1..Len(pc) : OrphanCreateVapiCall(i, "none", TRUE)
    \/ MapSucceeds
    \/ Timeout

SpecMap == InitMap /\ [][NextMap]_vars

(***************************************************************************)
(* The workflow under every assignment of the series ids that the          *)
(* deployment context may give.                                            *)
(***************************************************************************)
InitEnv ==
    /\ env \in Environments
    /\ store = <<>>
    /\ now = 0
    /\ event = NoEvent
    /\ response = NoResponse
    /\ lookup = NoLookup
    /\ execStatus = "NONE"
    /\ batch = NULL
    /\ calls = <<>>
    /\ pc = <<>>
    /\ state = <<>>
    /\ requests = <<>>
    /\ executions = 0

NextEnv ==
    \/ \E b \in Batches : StartExecution(b)
    \/ GetScheduledCallsTask("none")
    \/ \E i \in 1..Len(pc) : StartIteration(i)
    \/ \E i \in 1..Len(pc), queryOk \in BOOLEAN : GetContextTask(i, "none", queryOk)
    \/ \E i \in 1..Len(pc), apiOk \in BOOLEAN : CreateVapiCallTask(i, "none", apiOk)
    \/ \E i \in 1..Len(pc) : OrphanCreateVapiCall(i, "none", TRUE)
    \/ MapSucceeds
    \/ Timeout

SpecEnv == InitEnv /\ [][NextEnv]_vars

(***************************************************************************)
(* Properties.                                                             *)
(***************************************************************************)
\* the requests iteration i of the current execution has made
RequestsOf(i) ==
    { j \in 1..Len(requests) :
        requests[j].execution = executions /\ requests[j].item = i }

\* iteration i placed its call: the voice API created the call it asked for
Placed(i) == \E j \in RequestsOf(i) : requests[j].id # NULL

\* a step of iteration i itself failed
OwnStepFailed(i) ==
    pc[i] = "failed" \/ \E j \in RequestsOf(i) : requests[j].id = NULL

\* C1: when one per-call pipeline of an execution fails, every sibling
\* pipeline whose own steps do not fail still runs to completion and places
\* its call.  Stated on the state where the execution has failed and no Lambda
\* of it is in flight any more.
C1_SiblingsComplete ==
    (/\ execStatus = "FAILED"
     /\ \E i \in 1..Len(pc) : pc[i] = "failed"
     /\ \A i \in 1..Len(pc) : pc[i] # "orphan")
    => \A j \in 1..Len(pc) : ~OwnStepFailed(j) => Placed(j)

\* the rows, among the first n of the table, that the webhook stored for a
\* call the dispatcher placed for series sid
IngestedFor(sid, n) ==
    { k \in 1..n :
        \E j \in 1..Len(requests) :
            /\ requests[j].id # NULL
            /\ requests[j].id = store[k].vapi_call_id
            /\ requests[j].interviewSeriesId = sid }

\* C2: once the webhook has stored the transcript of a completed call of
\* series S, a later Context Lookup for S finds a record, and returns the
\* context of the newest one.
C2_LookupFindsIngested ==
    (/\ lookup.calls = 1 /\ ~lookup.raised
     /\ IngestedFor(lookup.interviewSeriesId, lookup.rows) # {})
    => /\ ~lookup.context.isNone
       /\ \E k \in IngestedFor(lookup.interviewSeriesId, lookup.rows) :
             /\ \A m \in IngestedFor(lookup.interviewSeriesId, lookup.rows) :
                   store[m].created_at <= store[k].created_at
             /\ lookup.context = store[k].context_summary

\* C3: every request the Call Dispatcher builds carries the assistant id, the
\* phone-line id and the customer number of the call definition its pipeline
\* was started for, none of them missing.
C3_RequestCarriesDefinition ==
    \A j \in 1..Len(requests) :
        requests[j].execution = executions /\ requests[j].item \in 1..Len(calls)
        => LET r == requests[j].request
               c == calls[requests[j].item]
           IN  /\ r.assistant_id = c.assistantId /\ r.assistant_id # NULL
               /\ r.phone_number_id = c.phoneNumberId /\ r.phone_number_id # NULL
               /\ r.customer_number = c.customerNumber /\ r.customer_number # NULL

\* the webhook has been invoked
Invoked == event # NoEvent

\* the response is structured: a status code and a JSON body
Structured(r) == ~r.raised /\ r.statusCode \in {200, 500} /\ DOMAIN r.body # {}

\* C4: the Webhook Ingestor never ends with an uncaught failure: whatever the
\* payload and whichever collaborator fails, it returns a status code and a
\* JSON body.
C4_AlwaysStructured == Invoked => Structured(response)

\* the payload parses to a message whose type is not "end-of-call-report"
OtherType(ev) ==
    /\ ev.body \in {"json", "absent"}
    /\ ev.message # "null"
    /\ ~(ev.body = "json" /\ ev.message = "object" /\ ev.type = EndOfCallReport)

Ignored(r) == ~r.raised /\ r.statusCode = 200 /\ r.body = [status |-> "ignored"]

\* C5: for every payload whose message.type is not "end-of-call-report" the
\* invocation leaves the store as it is and returns status "ignored" with
\* HTTP 200, however often the payload is repeated.
C5_OtherTypesIgnored ==
    [][OtherType(event') => store' = store /\ Ignored(response')]_vars

\* the frame half of C5 alone: such an invocation never changes the store
OtherTypesWriteNothing == [][OtherType(event') => store' = store]_vars

\* the response reports a stored record
Success(r) ==
    ~r.raised /\ r.statusCode = 200 /\ DOMAIN r.body = {"status", "supabase_id"}
    /\ r.body.status = "success"

\* the payload is a well-formed end-of-call report: a call with an id
ValidReport(ev) ==
    /\ ev.body = "json" /\ ev.message = "object" /\ ev.type = EndOfCallReport
    /\ ev.call = "object" /\ ev.id # NULL

\* the payload's analysis.summary and analysis.actionItems, empty when absent
PayloadSummary(ev) ==
    IF ev.analysis = "object" /\ ~ev.summary.isNone THEN ev.summary.val ELSE <<>>
PayloadActionItems(ev) ==
    IF ev.analysis = "object" /\ ~ev.actionItems.isNone THEN ev.actionItems.val ELSE <<>>

\* t holds a, and after it b
ContainsInOrder(t, a, b) ==
    \E i \in 0..Len(t) : Contains(SubSeq(t, 1, i), a) /\ Contains(SubSeq(t, i + 1, Len(t)), b)

\* C6: a successful ingest of a valid end-of-call report adds exactly one
\* record to the store, keyed by the payload's call id, whose summary and
\* action_items are the payload's analysis.summary and analysis.actionItems
\* and whose context_summary holds the summary text followed by the text of
\* every key insight (the action items).
C6_OneRecordPerReport ==
    [][(ValidReport(event') /\ Success(response'))
       => /\ Len(store') = Len(store) + 1
          /\ SubSeq(store', 1, Len(store)) = store
          /\ LET row == store'[Len(store')]
             IN  /\ row.vapi_call_id = event'.id
                 /\ row.summary = Some(PayloadSummary(event'))
                 /\ row.action_items = PayloadActionItems(event')
                 /\ ~row.context_summary.isNone
                 /\ \A k \in 1..Len(row.action_items) :
                       ContainsInOrder(row.context_summary.val, row.summary.val,
                                       row.action_items[k])
                 /\ Contains(row.context_summary.val, row.summary.val)]_vars

\* a report with a summary and two action items has been stored
C6_Witness ==
    /\ ValidReport(event) /\ Success(response)
    /\ PayloadSummary(event) = <<"ok">>
    /\ Len(store) >= 1
    /\ store[Len(store)].vapi_call_id = CallId(1)
    /\ store[Len(store)].action_items = << <<"call back tomorrow">> >>
    /\ Contains(store[Len(store)].context_summary.val, <<"call back tomorrow">>)

\* Get Scheduled Calls has returned and the Map state runs on its output
Listed == execStatus = "Map Calls"

\* the configured call definitions
Configured == ScheduledCalls(env, get_config)

\* C7: list_calls with an unknown batch label or with the empty string as
\* batch label returns an empty sequence of call definitions.
C7_UnknownOrEmptyIsEmpty ==
    (Listed /\ batch \in {"evening", ""}) => calls = <<>>

\* C8: for every batch label b, list_calls(b) returns exactly the configured
\* definitions whose batch field equals b, and with no label the full
\* configured set, in declaration order.
C8_ExactlyTheBatch ==
    Listed =>
        IF batch = NULL THEN calls = Configured
        ELSE calls = SelectSeq(Configured, LAMBDA c : c.batch = batch)

\* the rows of series sid, and the newest among them
SeriesRows(sid) ==
    { k \in 1..Len(store) : sid # NULL /\ store[k].interview_series_id = sid }
Newest(sid) ==
    { k \in SeriesRows(sid) :
        \A m \in SeriesRows(sid) : store[m].created_at <= store[k].created_at }

Empty(text) == text.isNone \/ text.val = <<>>

\* the lookup returned for its series what row k prescribes; `nothing` is
\* what it may return when both fields of the row are empty
Reflects(k, nothing) ==
    LET cs == store[k].context_summary
        su == store[k].summary
    IN  /\ ~Empty(cs) => lookup.context = cs
        /\ (Empty(cs) /\ ~Empty(su)) => lookup.context = su
        /\ (Empty(cs) /\ Empty(su)) => lookup.context \in nothing

Looked == lookup.calls = 1 /\ ~lookup.raised

InFlight ==
    { i \in 1..Len(pc) : pc[i] \in {"Get Conversation Context", "Create Vapi Call", "orphan"} }

\* C10: in every state of a batch run at most 5 per-call pipelines execute
\* concurrently, however many call definitions the run has.
C10_AtMostFiveConcurrent == Cardinality(InFlight) <= 5

\* five pipelines execute and a sixth waits
C10_Witness ==
    /\ Cardinality(Executing) = 5
    /\ \E i \in 1..Len(pc) : pc[i] = "pending"

\* the Context Lookup of iteration i has returned: the iteration's state is
\* the lookup's return value
LookupReturned(st) == DOMAIN st = {"context", "interviewSeriesId"}

\* the Context Lookup of iteration i failed
LookupFailed(i) == pc[i] = "failed" /\ ~LookupReturned(state[i])

\* this step adds a request of iteration i to the voice API's log
Requests(i) ==
    /\ Len(requests') = Len(requests) + 1
    /\ requests'[Len(requests')].item = i
    /\ requests'[Len(requests')].execution = executions

Malformed(ev) ==
    \/ ev.body = "invalid"
    \/ ev.body \in {"json", "absent"} /\ ev.message # "object"
    \/ /\ ev.body = "json" /\ ev.message = "object" /\ ev.type = EndOfCallReport
       /\ ev.call # "object"

\* a 500-class status and a JSON body carrying an error message
Failure500(r) == ~r.raised /\ r.statusCode = 500 /\ DOMAIN r.body = {"error"}

\* C12: every malformed payload and every store failure is answered with a
\* 500-class status and a JSON body carrying an error message, and then no
\* record is added; status 200 is returned only for an ignored event or a
\* successful store.  Stated on the invocations that return a response (for
\* those that raise see C4).
C12_MalformedIs500 ==
    [][~response'.raised =>
         /\ Malformed(event') => (Failure500(response') /\ store' = store)
         /\ (ValidReport(event') /\ ~Success(response'))
            => (Failure500(response') /\ store' = store)
         /\ response'.statusCode = 200
            => \/ Ignored(response') /\ store' = store
               \/ Success(response') /\ Len(store') = Len(store) + 1]_vars

\* the rows of a table that carry a voice-call id
RowsOf(table, id) == { k \in 1..Len(table) : table[k].vapi_call_id = id }

\* C13: ingest does not deduplicate by voice-call id: every successful
\* end-of-call-report callback adds one more record with its call id, so
\* after k such callbacks for one call id the store holds k records of it.
C13_NoDeduplication ==
    [][(ValidReport(event') /\ Success(response'))
       => Cardinality(RowsOf(store', event'.id))
          = Cardinality(RowsOf(store, event'.id)) + 1]_vars

\* two successful callbacks for one call have left two records of it
C13_Witness ==
    /\ ValidReport(event) /\ Success(response) /\ event.id = CallId(1)
    /\ Len(store) = 2
    /\ Cardinality(RowsOf(store, CallId(1))) = 2

\* C14: for every place_call invocation the request's override payload has
\* variableValues.previousContext equal to the given context when a context
\* is present, and no previousContext variable when the context is absent or
\* empty; on success the returned outcome carries the voice API's call id,
\* the input customer number and status "created".
C14_ContextInjected ==
    [][\A i \in 1..Len(pc) :
         Requests(i) /\ executions' = executions =>
            LET ctx == GetText(state[i], "context")
                r == requests'[Len(requests')]
                vv == r.request.assistant_overrides.variableValues
            IN  /\ IF ~ctx.isNone /\ ctx.val # <<>>
                   THEN DOMAIN vv = {"previousContext"} /\ vv.previousContext = ctx.val
                   ELSE DOMAIN vv = {}
                /\ (r.id # NULL /\ pc[i] = "Create Vapi Call")
                   => /\ pc'[i] = "succeeded"
                      /\ state'[i] = [vapiCallId |-> r.id,
                                      customerNumber |-> Get(state[i], "customerNumber"),
                                      status |-> "created"]]_vars

\* one call has been placed with the stored context of its series and one
\* with no previousContext, and both dispatchers have returned their outcome
C14_Witness ==
    /\ Len(pc) = 2 /\ pc[1] = "succeeded" /\ pc[2] = "succeeded"
    /\ \E j \in RequestsOf(1) :
          /\ requests[j].request.assistant_overrides.variableValues
             = [previousContext |-> <<"prior notes">>]
          /\ state[1].vapiCallId = requests[j].id /\ state[1].status = "created"
    /\ \E j \in RequestsOf(2) :
          DOMAIN requests[j].request.assistant_overrides.variableValues = {}

\* Get Scheduled Calls of the current execution has returned
DirectoryReturned == execStatus \in {"Map Calls", "SUCCEEDED"} \/ Len(pc) > 0

\* the pipelines (iterations of Map Calls) of the configured definition k
PipelinesOf(k) == { i \in 1..Len(pc) : calls[i].id = Configured[k].id }

\* C15: for a trigger carrying batch label b the Orchestrator has exactly one
\* per-call pipeline for each configured call definition whose batch is b and
\* none for any other definition; every request of the run comes from such a
\* pipeline, and a run that succeeds has placed exactly one call for each.
C15_OnePipelinePerBatchDefinition ==
    (batch \in TriggerBatches /\ DirectoryReturned) =>
        /\ Len(pc) = Len(calls)
        /\ \A k \in 1..Len(Configured) :
              Cardinality(PipelinesOf(k)) = IF Configured[k].batch = batch THEN 1 ELSE 0
        /\ \A j \in 1..Len(requests) :
              requests[j].execution = executions
              => /\ requests[j].item \in 1..Len(calls)
                 /\ calls[requests[j].item].batch = batch
        /\ execStatus = "SUCCEEDED"
           => \A i \in 1..Len(pc) : Cardinality(RequestsOf(i)) = 1 /\ Placed(i)

\* a "morning" run over one morning and one afternoon definition has run
\* the one morning pipeline to its end
C15_Witness ==
    /\ batch = "morning" /\ execStatus = "SUCCEEDED"
    /\ Len(Configured) = 2
    /\ Len(pc) = 1 /\ calls[1] = Configured[1] /\ calls[1].batch = "morning"
    /\ Placed(1) /\ Len(requests) = 1

\* the requests of the current execution
RunRequests == { j \in 1..Len(requests) : requests[j].execution = executions }

C17_AppendOnly ==
    [][/\ Len(store') >= Len(store)
       /\ SubSeq(store', 1, Len(store)) = store
       /\ store' # store
          => /\ Len(store') = Len(store) + 1
             /\ MessageType(event') = EndOfCallReport
             /\ Success(response')
             /\ response'.body.supabase_id = store'[Len(store')].id
             /\ runVars' = runVars /\ lookup' = lookup]_vars

\* a report has been ingested while the batch run that placed its call is
\* still running another pipeline, and a lookup has read the table since
C17_Witness ==
    /\ execStatus = "Map Calls"
    /\ \E i \in 1..Len(pc) : pc[i] = "Create Vapi Call"
    /\ Len(store) >= 1
    /\ store[Len(store)].vapi_call_id \in CreatedIds
    /\ lookup.calls = 1 /\ lookup.rows = Len(store)

\* C18 as stated: once the batch-level timeout of a run has fired no pipeline
\* of that run places a new outbound call, and the calls placed before it are
\* left as they are.
C18_NoCallAfterTimeout ==
    [][(execStatus = "TIMED_OUT" /\ executions' = executions)
       => Created' = Created]_vars

\* C18 as amended: once the timeout has fired the Orchestrator starts no
\* further step of the run, and a pipeline that had not reached its dispatcher
\* step places no call; only a dispatcher invocation that was in flight when
\* the timeout fired runs on and can make its one request.  The requests made
\* before are left as they are.
C18_OnlyInFlightDispatchAfterTimeout ==
    [][(execStatus = "TIMED_OUT" /\ executions' = executions)
       => /\ execStatus' = "TIMED_OUT" /\ state' = state
          /\ Len(requests') \in {Len(requests), Len(requests) + 1}
          /\ SubSeq(requests', 1, Len(requests)) = requests
          /\ \A i \in 1..Len(pc) :
                /\ Requests(i)
                   => /\ pc[i] = "orphan" /\ LookupReturned(state[i])
                      /\ RequestsOf(i) = {}
                /\ pc'[i] # pc[i] => (pc[i] = "orphan" /\ pc'[i] = "aborted")]_vars

\* the run has timed out with one call placed by a pipeline that ended before
\* the timeout and one placed by a dispatcher invocation that outlived it
C18_Witness ==
    /\ execStatus = "TIMED_OUT" /\ Len(pc) = 2
    /\ pc[1] = "succeeded" /\ Placed(1)
    /\ pc[2] = "aborted" /\ Placed(2)

\* no two pipelines of the run have the same conversation-series id
DistinctSeries ==
    \A i \in 1..Len(pc), j \in 1..Len(pc) :
        i # j => Get(calls[i], "interviewSeriesId") # Get(calls[j], "interviewSeriesId")

\* the pipelines whose Context Lookup is running
Reading == { i \in 1..Len(pc) : pc[i] = "Get Conversation Context" }

\* no two running Context Lookups read the same series
DistinctReads ==
    \A i \in Reading, j \in Reading :
        i # j => Get(state[i], "interviewSeriesId") # Get(state[j], "interviewSeriesId")

\* C19 as stated: in a batch run for label morning, afternoon or no label no
\* two per-call pipelines have the same conversation-series id, and no two
\* concurrent pipelines read the context of the same series, whatever series
\* ids the environment supplies.
C19_DistinctSeriesAlways ==
    batch \in TriggerBatches \cup {NULL} => (DistinctSeries /\ DistinctReads)

\* C19 as amended: the same for the labels morning and afternoon under every
\* assignment, and for a run with no label when the two series ids of the
\* environment differ.
C19_DistinctSeriesWhenIdsDiffer ==
    /\ batch \in TriggerBatches => (DistinctSeries /\ DistinctReads)
    /\ (batch = NULL /\ env.INTERVIEW_SERIES_MARCUS # env.INTERVIEW_SERIES_SUE)
       => (DistinctSeries /\ DistinctReads)

\* under an assignment that swaps the two series ids, a run with no label
\* has both pipelines reading their context at the same time, each its own
C19_Witness ==
    /\ env.INTERVIEW_SERIES_MARCUS = SUE /\ env.INTERVIEW_SERIES_SUE = MARCUS
    /\ batch = NULL /\ execStatus = "Map Calls"
    /\ Reading = {1, 2}
    /\ state[1].interviewSeriesId = SUE /\ state[2].interviewSeriesId = MARCUS

====
